---- MODULE Spec2Model ----
(***************************************************************************)
(* Camera-path stabilizers of unshakify: OnlineStabilizer (rigid path,     *)
(* src/src/unshakify/stabilizer.py) and FastStabilizer (confidence-        *)
(* weighted homography path, src/src/unshakify/fast_stabilizer.py).        *)
(*                                                                         *)
(* One stabilizer instance is modelled per behaviour: Init is the state    *)
(* right after __init__, and the actions are __call__ and reset.  The      *)
(* OpenCV primitives (flow, corner detection, tracking, fitting, warping)  *)
(* are external: each call draws their outcome from a small set.           *)
(*                                                                         *)
(* Numbers.  Floats are modelled by exact rationals:                       *)
(*   - alpha is counted in halves (0, 1, 2 stand for 0.0, 0.5, 1.0);        *)
(*   - a confidence is counted in tenths (1 .. 10 stand for 0.1 .. 1.0);    *)
(*   - a smoothing weight alpha*confidence is therefore in twentieths;     *)
(*   - a 3x3 matrix is [nan, den, m]: the integer matrix m over the        *)
(*     positive denominator den, or the all-NaN matrix when nan is TRUE.   *)
(* None is the empty tuple and a present value x is <<x>>.                 *)
(*                                                                         *)
(* Streams.  The n-th frame of a stream has its own colour, and all frames *)
(* of a stream have one shape.  A "short" stream draws every outcome of    *)
(* the primitives; a "long" stream is long enough to overfill the history  *)
(* and draws few outcomes (identity fits, full confidence after the first  *)
(* tracked pair).                                                          *)
(*                                                                         *)
(* Observation.  frame, ret, prim, branch, ntracked, ncalls and motion      *)
(* record what the calls were given and did; no operation reads them,      *)
(* except ncalls, which numbers the frames and bounds the stream.          *)
(*                                                                         *)
(* Indicators.  The quality indicators (src/src/unshakify/indicators.py)   *)
(* are functions of video files; IndSpec makes one call of one of them on  *)
(* videos drawn from small sets and records it in ind.  A video is the     *)
(* sequence of its frames, every video opens and has one frame size, and   *)
(* the callable given to measure_latency returns.  A stability score is    *)
(* modelled by its square and an improvement 1 - sqrt(q) by q.             *)
(*                                                                         *)
(* Video resources.  OpenSpec gives a stabilizer in use to one of the      *)
(* video writers, or makes one indicator call on paths that may not open;  *)
(* ind then holds the position of the writer or the call made.             *)
(*                                                                         *)
(* Fit points.  FitSpec makes one call of _estimate_homography_from_flow   *)
(* on per-point confidences and records in ind the points it fits.         *)
(***************************************************************************)
EXTENDS Integers, Sequences, FiniteSets, TLC

\* ------------------------------------------------------------------ bounds

\* Calls of __call__ in one behaviour of the "short" profile (all inputs vary).
MaxFrames == 3
\* Calls of __call__ in one behaviour of the "long" profile (few inputs vary),
\* enough to fill the history beyond its capacity.
MaxStream == 33
\* Frames of a video file given to an indicator that reads one video.
MaxVideo == 3
\* Frames of each video given to an indicator that reads two videos.
MaxPair == 2
\* Correspondences given to one homography estimation.
MaxPoints == 5

\* ------------------------------------------------------- program constants

\* len(self.transform_history) > 30
HistoryCap == 30
\* np.mgrid[0:h:20, 0:w:20] and flow[::20, ::20]
GridStride == 20
\* len(self.prev_corners) < 10
MinCorners == 10
\* len(good_old) < 4
MinFitPoints == 4
\* pts_prev is None or len(pts_prev) < 6 ; len(good_curr) < 6
MinRigidPoints == 6
\* self.confidence_history[-5:]
RecentWindow == 5
\* pts_prev is not None and len(pts_prev) >= 6 ; len(good_next) >= 6
MinMotionPoints == 6
\* cropping_ratio_from_video(..., threshold: int = 3, ...)
Threshold == 3

\* ------------------------------------------------------------ arithmetic

None == <<>>

Some(x) == <<x>>

Abs(x) == IF x < 0 THEN -x ELSE x

Min2(a, b) == IF a <= b THEN a ELSE b

RECURSIVE GCD(_, _)
GCD(a, b) == IF b = 0 THEN Abs(a) ELSE GCD(b, a % Abs(b))

\* np.clip(x, lo, hi)
Clip(x, lo, hi) == IF x < lo THEN lo ELSE IF x > hi THEN hi ELSE x

\* ceil(a / b) for a >= 0, b > 0: the number of indices in range(0, a, b)
CeilDiv(a, b) == (a + b - 1) \div b

RECURSIVE SumSeq(_)
SumSeq(s) == IF s = <<>> THEN 0 ELSE Head(s) + SumSeq(Tail(s))

\* ---------------------------------------------------------- 3x3 matrices

Idx == 1..3

EyeEntry(i, j) == IF i = j THEN 1 ELSE 0

\* the all-NaN matrix (its entries are not read)
NaNMat == [nan |-> TRUE, den |-> 1, m |-> <<<<0, 0, 0>>, <<0, 0, 0>>, <<0, 0, 0>>>>]

\* gcd of the nine entries and the denominator
MatGCD(m, d) ==
  LET row(i) == GCD(GCD(m[i][1], m[i][2]), m[i][3])
  IN GCD(GCD(GCD(row(1), row(2)), row(3)), d)

\* the canonical form of the rational matrix m / d (d # 0)
Canon(m, d) ==
  LET g == MatGCD(m, d)
      s == IF d < 0 THEN -g ELSE g
  IN [nan |-> FALSE, den |-> d \div s,
      m |-> [i \in Idx |-> [j \in Idx |-> m[i][j] \div s]]]

\* np.eye(3)
Eye == Canon(<<<<1, 0, 0>>, <<0, 1, 0>>, <<0, 0, 1>>>>, 1)

\* A @ B
MatMul(A, B) ==
  IF A.nan \/ B.nan THEN NaNMat
  ELSE Canon([i \in Idx |-> [j \in Idx |->
                A.m[i][1] * B.m[1][j] + A.m[i][2] * B.m[2][j] + A.m[i][3] * B.m[3][j]]],
             A.den * B.den)

\* determinant of an integer matrix
Det(m) ==
    m[1][1] * (m[2][2] * m[3][3] - m[2][3] * m[3][2])
  - m[1][2] * (m[2][1] * m[3][3] - m[2][3] * m[3][1])
  + m[1][3] * (m[2][1] * m[3][2] - m[2][2] * m[3][1])

\* adjugate of an integer matrix: Adj(m) @ m = Det(m) * I
Adj(m) ==
  LET nx(i) == (i % 3) + 1
      c(i, j) == m[nx(i)][nx(j)] * m[nx(nx(i))][nx(nx(j))]
               - m[nx(i)][nx(nx(j))] * m[nx(nx(i))][nx(j)]
  IN [i \in Idx |-> [j \in Idx |-> c(j, i)]]

\* np.linalg.inv raises LinAlgError("Singular matrix") exactly here
Singular(A) == ~A.nan /\ Det(A.m) = 0

\* np.linalg.inv(A) for a matrix that is not singular (NaN in, NaN out)
MatInv(A) ==
  IF A.nan THEN NaNMat
  ELSE LET a == Adj(A.m)
       IN Canon([i \in Idx |-> [j \in Idx |-> A.den * a[i][j]]], Det(A.m))

\* (1 - w) * P + w * C entrywise, the weight w counted in twentieths
Blend(w, P, C) ==
  IF P.nan \/ C.nan THEN NaNMat
  ELSE Canon([i \in Idx |-> [j \in Idx |->
                (20 - w) * P.m[i][j] * C.den + w * C.m[i][j] * P.den]],
             20 * P.den * C.den)

\* np.linalg.norm(T - np.eye(3)), given by its square num / den (sqrt is
\* injective and monotone on the non-negative reals; it is not rational)
FrobeniusNorm(T) ==
  IF T.nan THEN [nan |-> TRUE, num |-> 0, den |-> 1]
  ELSE LET d(i, j) == T.m[i][j] - EyeEntry(i, j) * T.den
           sq(i) == d(i, 1) * d(i, 1) + d(i, 2) * d(i, 2) + d(i, 3) * d(i, 3)
       IN [nan |-> FALSE, num |-> sq(1) + sq(2) + sq(3), den |-> T.den * T.den]

\* ----------------------------------------------------------------- frames

\* A frame is h x w pixels of one BGR colour px; its content is read only by
\* the external primitives, its shape also by the sampling grid.
Frame(h, w, px) == [h |-> h, w |-> w, px |-> px]

\* cv2.cvtColor(frame_bgr, cv2.COLOR_BGR2GRAY): Y = 0.114 B + 0.587 G + 0.299 R
Gray(f) ==
  [h |-> f.h, w |-> f.w,
   v |-> (114 * f.px[1] + 587 * f.px[2] + 299 * f.px[3] + 500) \div 1000]

\* the frame object itself, as returned by "return frame_bgr"
Unwarped(f) == [frame |-> f, comp |-> None]

\* cv2.warpPerspective / cv2.warpAffine of frame f by the transform comp
Warp(f, comp) == [frame |-> f, comp |-> Some(comp)]

\* a warp whose output size is given as (h, w)
DSizeTransposed(f) == <<f.h, f.w>>

\* the dsize argument (w, h) of cv2.warpPerspective / cv2.warpAffine
DSize(f) == <<f.w, f.h>>

\* shape (rows, columns, channels) of a returned array: that of the frame
\* object, or dsize[1] rows and dsize[0] columns with the channels of the source
OutputShape(o) ==
  IF o.comp = None THEN <<o.frame.h, o.frame.w, Len(o.frame.px)>>
  ELSE <<DSize(o.frame)[2], DSize(o.frame)[1], Len(o.frame.px)>>

\* return self._last_output if self._last_output is not None else frame_bgr
HoldOutput(lo, f) == IF lo # None THEN lo[1] ELSE Unwarped(f)

\* ------------------------------------------------------------------ state

VARIABLES
  kind,                  \* the class of the instance
  profile,               \* which inputs the stream draws from ("short" / "long")
  alpha_arg,             \* the alpha passed to __init__ (halves)
  alpha,                 \* self.alpha (halves)
  flow_method,           \* self.flow_method
  min_flow_points,       \* self.min_flow_points
  prev_gray,             \* self.prev_gray
  prev_corners,          \* self.prev_corners: [n, lost], lost of the n points
                         \* failed to track into the current reference frame
  cumulative_transform,  \* self.cumulative_transform (raw path)
  smoothed_transform,    \* self.smoothed_transform
  transform_history,     \* self.transform_history
  confidence_history,    \* self.confidence_history (tenths)
  last_output,           \* self._last_output
  accum,                 \* OnlineStabilizer.accum = <<dx, dy, da>>
  smooth_accum,          \* OnlineStabilizer.smooth_accum = [den, v]
  frame,                 \* the frame passed to the latest __call__
  ret,                   \* what the latest __call__ returned (None: it raised)
  prim,                  \* what the external primitives gave the latest __call__
  branch,                \* the path the latest operation took
  ntracked,              \* frames tracked since construction or reset
  ncalls,                \* number of __call__ so far
  motion,                \* OnlineStabilizer: frames presented and deltas
                         \* fitted since construction or reset
  ind                    \* the indicator call made: its arguments and result

config == <<kind, profile, alpha_arg, alpha, flow_method, min_flow_points>>

fast_state == <<prev_corners, cumulative_transform, smoothed_transform,
                transform_history, confidence_history>>

online_state == <<accum, smooth_accum>>

vars == <<kind, profile, alpha_arg, alpha, flow_method, min_flow_points,
          prev_gray, prev_corners, cumulative_transform, smoothed_transform,
          transform_history, confidence_history, last_output, accum,
          smooth_accum, frame, ret, prim, branch, ntracked, ncalls, motion,
          ind>>

\* ----------------------------------------------------------------- inputs

Long == profile = "long"

\* values of alpha given to the constructors, in halves: -0.5, 0.5, 1.5
AlphaArgs == {-1, 1, 3}

\* values of min_flow_points given to FastStabilizer
MinFlowPointsArgs == {3, 10}

\* frame shapes (h, w): sampling grids of 2 and 6 points
Shapes == IF Long THEN {<<40, 60>>} ELSE {<<20, 40>>, <<40, 60>>}

\* the colour (B, G, R) of the n-th frame of the stream: neighbours differ
Colour(n) == <<80 * (n % 4), 80 * (n % 4), 255 - 80 * (n % 4)>>

\* the frames the next call may be given: the next frame of the stream, in
\* the shape of the stored reference frame (a stream has one shape)
Frames ==
  {Frame(sh[1], sh[2], Colour(ncalls)) : sh \in
      {x \in Shapes : prev_gray = None \/ (x[1] = prev_gray[1].h /\ x[2] = prev_gray[1].w)}}

\* fitted homographies: identity, a shift, a quarter turn, a singular matrix
\* (rank 2) and a non-finite one
HShift == Canon(<<<<1, 0, 1>>, <<0, 1, 0>>, <<0, 0, 1>>>>, 1)

HTurn == Canon(<<<<0, -1, 0>>, <<1, 0, 0>>, <<0, 0, 1>>>>, 1)

HSingular == Canon(<<<<1, 0, 0>>, <<0, 0, 0>>, <<0, 0, 1>>>>, 1)

Homographies == IF Long THEN {Eye} ELSE {HShift, HTurn, HSingular, NaNMat}

\* outcomes of cv2.findHomography: a matrix, None, or cv2.error
FitOutcomes ==
  {[tag |-> "ok", H |-> h] : h \in Homographies}
    \cup (IF Long THEN {} ELSE {[tag |-> t, H |-> Eye] : t \in {"none", "error"}})

\* outcomes of cv2.calcOpticalFlowFarneback (and of the Sobel calls after it)
FlowOutcomes == IF Long THEN {"ok", "error"} ELSE {"ok", "none", "error"}

\* mean of the sampled confidences, in tenths; in a long stream the first
\* tracked pair has no confidence and every later one full confidence
ConfMeans == IF Long THEN {IF ntracked = 0 THEN 0 ELSE 10} ELSE {0, 10}

\* number of corners cv2.goodFeaturesToTrack returns (0: it returns None)
DetectCounts == IF Long THEN {12} ELSE {0, 5, 12}

\* number of points tracked with status 1
TrackedCounts == IF Long THEN {6, 12} ELSE {0, 3, 6, 12}

\* number of corners cv2.goodFeaturesToTrack returns to OnlineStabilizer
RigidDetectCounts == IF Long THEN {5, 8} ELSE {0, 5, 8}

\* cv2.calcOpticalFlowPyrLK for OnlineStabilizer: None, or the number of
\* points tracked with status 1
RigidTrackOutcomes == IF Long THEN {Some(8)} ELSE {None, Some(5), Some(8)}

\* cv2.estimateAffinePartial2D: None, or M given by <<M[0,2], M[1,2],
\* atan2(M[1,0], M[0,0])>> (the angle in radians)
RigidFits ==
  IF Long THEN {Some(<<1, 2, 0>>)}
  ELSE {None, Some(<<0, 0, 0>>), Some(<<1, 0, 0>>), Some(<<0, 2, 1>>)}

\* cv2.warpPerspective returns (TRUE) or raises cv2.error (FALSE)
WarpOutcomes == IF Long THEN {TRUE} ELSE BOOLEAN

CallBound == IF Long THEN MaxStream ELSE MaxFrames

\* ----------------------------------------------------------- construction

\* a clip that bounds alpha from below only
ClipAlphaBelowOnly(a) == IF a < 0 THEN 0 ELSE a

\* np.clip(alpha, 0.0, 1.0), alpha in halves
ClipAlpha(a) == Clip(a, 0, 2)

\* np.zeros(3) as the EMA of the rigid path
ZeroPath == [den |-> 1, v |-> <<0, 0, 0>>]

\* the mutable state __init__ sets
Fresh ==
  /\ prev_gray = None
  /\ prev_corners = None
  /\ cumulative_transform = Eye
  /\ smoothed_transform = Eye
  /\ transform_history = <<>>
  /\ confidence_history = <<>>
  /\ last_output = None
  /\ accum = <<0, 0, 0>>
  /\ smooth_accum = ZeroPath

\* FastStabilizer.__init__
FastInit(a, fm, mfp) ==
  /\ kind = "FastStabilizer"
  /\ alpha_arg = a
  /\ alpha = ClipAlpha(a)
  /\ flow_method = fm
  /\ min_flow_points = mfp
  /\ Fresh

\* OnlineStabilizer.__init__ (it has no flow method and no point minimum)
OnlineInit(a) ==
  /\ kind = "OnlineStabilizer"
  /\ alpha_arg = a
  /\ alpha = ClipAlpha(a)
  /\ flow_method = "klt"
  /\ min_flow_points = MinRigidPoints
  /\ Fresh

\* no primitive consulted: det = corners detected, tr = rigid tracking
\* outcome, points = len(good_old), mean = mean sampled confidence (tenths),
\* fit = outcome of the fit
NoPrim == [det |-> None, tr |-> None, points |-> None, mean |-> None, fit |-> None]

\* nothing presented and nothing fitted yet
NoMotion == [frames |-> 0, deltas |-> {}]

\* no indicator function called
NoIndicator == [op |-> "none"]

NoCallYet ==
  /\ frame = None
  /\ ret = None
  /\ prim = NoPrim
  /\ branch = "init"
  /\ ntracked = 0
  /\ ncalls = 0
  /\ motion = NoMotion

Init ==
  /\ NoCallYet
  /\ ind = NoIndicator
  /\ \/ /\ profile = "short"
        /\ \/ \E a \in AlphaArgs, fm \in {"farneback", "lucas_kanade"},
                 mfp \in MinFlowPointsArgs : FastInit(a, fm, mfp)
           \/ \E a \in AlphaArgs : OnlineInit(a)
     \/ /\ profile = "long"
        /\ \/ \E fm \in {"farneback", "lucas_kanade"} : FastInit(2, fm, 10)
           \/ OnlineInit(2)

\* ----------------------------------------------------------- FastStabilizer

\* number of points of np.mgrid[0:h:20, 0:w:20]
GridCount(f) == CeilDiv(f.h, GridStride) * CeilDiv(f.w, GridStride)

\* _compute_sparse_flow: the corner set it leaves in self.prev_corners and the
\* number of points of good_old (None when it returns None, None, None).
\* det: corners a detection would find; good: points tracked with status 1.
ComputeSparseFlow(pc, det, good) ==
  LET c1 == IF pc = None
            THEN (IF det = 0 THEN None ELSE Some([n |-> det, lost |-> 0]))
            ELSE pc
  IN IF c1 = None \/ c1[1].n < MinCorners
     THEN [corners |-> c1, pts |-> None]
     ELSE LET k == Min2(good, c1[1].n)
          IN [corners |-> Some([n |-> c1[1].n, lost |-> c1[1].n - k]),
              pts |-> Some(k)]

\* _estimate_homography_from_flow: None below 4 points, else the fitted
\* matrix, or the identity when the fit gives None or raises cv2.error
EstimateHomographyFromFlow(npts, fit) ==
  IF npts < MinFitPoints THEN None
  ELSE IF fit.tag = "ok" THEN Some(fit.H)
  ELSE Some(Eye)

\* the mean taken as it is
AverageConfidenceUnclipped(mean) == mean

\* np.clip(np.mean(conf_sampled), 0.1, 1.0), in tenths
AverageConfidence(mean) == Clip(mean, 1, 10)

\* the product taken as the weight
AdaptiveAlphaUnclamped(a, confidence) == a * confidence

\* np.clip(self.alpha * confidence, 0.1, 0.95), in twentieths
AdaptiveAlpha(a, confidence) == Clip(a * confidence, 2, 19)

\* _adaptive_smoothing
AdaptiveSmoothing(history, a, current, confidence) ==
  IF Len(history) = 0 THEN current
  ELSE Blend(AdaptiveAlpha(a, confidence), history[Len(history)], current)

\* insert at the front, then drop the last entry when the length exceeds 30
AppendBoundedFront(h, x) ==
  LET a == <<x>> \o h
  IN IF Len(a) > HistoryCap THEN SubSeq(a, 1, HistoryCap) ELSE a

\* append, and pop(0) one entry too late
AppendBoundedLate(h, x) ==
  LET a == Append(h, x)
  IN IF Len(a) > HistoryCap + 1 THEN Tail(a) ELSE a

\* append, then pop(0) when the length exceeds 30
AppendBounded(h, x) ==
  LET a == Append(h, x)
  IN IF Len(a) > HistoryCap THEN Tail(a) ELSE a

\* the hold exits of __call__: advance the reference, return the last output
FastHold(f, pc, b, seen) ==
  /\ prev_gray' = Some(Gray(f))
  /\ prev_corners' = pc
  /\ ret' = Some(HoldOutput(last_output, f))
  /\ branch' = b
  /\ prim' = seen
  /\ UNCHANGED <<cumulative_transform, smoothed_transform, transform_history,
                 confidence_history, last_output, ntracked>>

\* __call__ from "Estimate homography transformation" to its end; the fit and
\* the warp are drawn where the code reaches them
FastEstimate(f, pc, npts, mean) ==
  LET seen == [NoPrim EXCEPT !.points = Some(npts), !.mean = Some(mean)]
  IN
  IF npts < MinFitPoints THEN FastHold(f, pc, "hold_fit", seen)
  ELSE \E fit \in FitOutcomes :
    LET H == EstimateHomographyFromFlow(npts, fit)
        cum == MatMul(H[1], cumulative_transform)
        avg == AverageConfidence(mean)
        sm == AdaptiveSmoothing(transform_history, alpha, cum, avg)
    IN /\ prim' = [seen EXCEPT !.fit = Some(fit)]
       /\ IF Singular(cum)
          THEN \* np.linalg.inv raises; nothing after it runs
               /\ cumulative_transform' = cum
               /\ prev_corners' = pc
               /\ ret' = None
               /\ branch' = "raised"
               /\ UNCHANGED <<prev_gray, smoothed_transform, transform_history,
                              confidence_history, last_output, ntracked>>
          ELSE \E warp_ok \in WarpOutcomes :
               LET comp == MatMul(sm, MatInv(cum))
                   stabilized == IF warp_ok THEN Warp(f, comp) ELSE Unwarped(f)
               IN /\ cumulative_transform' = cum
                  /\ transform_history' = AppendBounded(transform_history, sm)
                  /\ confidence_history' = AppendBounded(confidence_history, avg)
                  /\ prev_gray' = Some(Gray(f))
                  /\ prev_corners' = pc
                  /\ last_output' = Some(stabilized)
                  /\ ret' = Some(stabilized)
                  /\ branch' = "tracked"
                  /\ ntracked' = ntracked + 1
                  /\ UNCHANGED smoothed_transform

\* the farneback branch of __call__
FastDense(f) ==
  \E flow \in FlowOutcomes :
    IF flow = "error" THEN FastHold(f, prev_corners, "hold_flow", NoPrim)
    ELSE IF flow = "none" THEN FastEstimate(f, prev_corners, GridCount(f), 1)
    ELSE \E mean \in ConfMeans : FastEstimate(f, prev_corners, GridCount(f), mean)

\* the lucas_kanade branch of __call__
FastSparse(f) ==
  \E det \in (IF prev_corners = None THEN DetectCounts ELSE {0}),
     good \in TrackedCounts :
    LET sp == ComputeSparseFlow(prev_corners, det, good)
    IN IF sp.pts = None \/ sp.pts[1] < min_flow_points
       THEN FastHold(f, sp.corners, "hold_points", [NoPrim EXCEPT !.points = sp.pts])
       ELSE \E mean \in ConfMeans : FastEstimate(f, sp.corners, sp.pts[1], mean)

\* a first frame that already enters the history
FastFirstRecorded(f) ==
  /\ prev_gray' = Some(Gray(f))
  /\ last_output' = Some(Unwarped(f))
  /\ ret' = Some(Unwarped(f))
  /\ branch' = "first"
  /\ prim' = NoPrim
  /\ transform_history' = Append(transform_history, cumulative_transform)
  /\ confidence_history' = Append(confidence_history, 10)
  /\ UNCHANGED <<prev_corners, cumulative_transform, smoothed_transform, ntracked>>

\* a first frame that stores the reference frame but not the output
FastFirstNoOutput(f) ==
  /\ prev_gray' = Some(Gray(f))
  /\ ret' = Some(Unwarped(f))
  /\ branch' = "first"
  /\ prim' = NoPrim
  /\ UNCHANGED <<fast_state, ntracked, last_output>>

\* __call__ when self.prev_gray is None: "Initialize on first frame"
FastFirst(f) ==
  /\ prev_gray' = Some(Gray(f))
  /\ last_output' = Some(Unwarped(f))
  /\ ret' = Some(Unwarped(f))
  /\ branch' = "first"
  /\ prim' = NoPrim
  /\ UNCHANGED <<fast_state, ntracked>>

\* the body of FastStabilizer.__call__(frame_bgr): what it does to the instance
FastCallBody(f) ==
  /\ kind = "FastStabilizer"
  /\ ncalls < CallBound
  /\ ncalls' = ncalls + 1
  /\ frame' = Some(f)
  /\ UNCHANGED <<config, online_state, motion>>
  /\ IF prev_gray = None THEN FastFirst(f)
     ELSE IF flow_method = "farneback" THEN FastDense(f)
     ELSE FastSparse(f)

\* FastStabilizer.__call__(frame_bgr), called by the user of the instance
FastCall(f) == FastCallBody(f) /\ UNCHANGED ind

\* a reset that leaves the two history lists as they are
FastResetKeepsHistory ==
  /\ kind = "FastStabilizer"
  /\ prev_gray' = None
  /\ prev_corners' = None
  /\ cumulative_transform' = Eye
  /\ smoothed_transform' = Eye
  /\ last_output' = None
  /\ branch' = "reset"
  /\ ntracked' = 0
  /\ UNCHANGED <<config, online_state, frame, ret, prim, ncalls, motion, ind,
                 transform_history, confidence_history>>

\* FastStabilizer.reset()
FastReset ==
  /\ kind = "FastStabilizer"
  /\ prev_gray' = None
  /\ prev_corners' = None
  /\ cumulative_transform' = Eye
  /\ smoothed_transform' = Eye
  /\ transform_history' = <<>>
  /\ confidence_history' = <<>>
  /\ last_output' = None
  /\ branch' = "reset"
  /\ ntracked' = 0
  /\ UNCHANGED <<config, online_state, frame, ret, prim, ncalls, motion, ind>>

\* an info whose avg_confidence is the mean of the whole history
GetStabilizationInfoWholeHistory(ch, th) ==
  IF Len(ch) = 0
  THEN [avg_confidence |-> [num |-> 0, den |-> 1],
        transform_norm |-> [nan |-> FALSE, num |-> 0, den |-> 1]]
  ELSE [avg_confidence |-> [num |-> SumSeq(ch), den |-> 10 * Len(ch)],
        transform_norm |-> IF Len(th) > 0 THEN FrobeniusNorm(th[Len(th)])
                           ELSE [nan |-> FALSE, num |-> 0, den |-> 1],
        num_transforms |-> Len(th)]

\* FastStabilizer.get_stabilization_info(): a record with the keys the
\* returned dict has; avg_confidence is the rational num / den
GetStabilizationInfo(ch, th) ==
  IF Len(ch) = 0
  THEN [avg_confidence |-> [num |-> 0, den |-> 1],
        transform_norm |-> [nan |-> FALSE, num |-> 0, den |-> 1]]
  ELSE LET recent == IF Len(ch) >= RecentWindow
                     THEN SubSeq(ch, Len(ch) - RecentWindow + 1, Len(ch))
                     ELSE ch
       IN [avg_confidence |-> [num |-> SumSeq(recent), den |-> 10 * Len(recent)],
           transform_norm |-> IF Len(th) > 0 THEN FrobeniusNorm(th[Len(th)])
                              ELSE [nan |-> FALSE, num |-> 0, den |-> 1],
           num_transforms |-> Len(th)]

Info == GetStabilizationInfo(confidence_history, transform_history)

FastNext ==
  \/ \E f \in Frames : FastCall(f)
  \/ FastReset

\* ---------------------------------------------------------- OnlineStabilizer

\* the canonical form of the rational vector v / d (d > 0)
CanonVec(v, d) ==
  LET g == GCD(GCD(GCD(v[1], v[2]), v[3]), d)
  IN [den |-> d \div g, v |-> <<v[1] \div g, v[2] \div g, v[3] \div g>>]

\* (1.0 - self.alpha) * self.smooth_accum + self.alpha * self.accum
SmoothPath(a, S, A) ==
  CanonVec([i \in Idx |-> (2 - a) * S.v[i] + a * A[i] * S.den], 2 * S.den)

\* diff = self.smooth_accum - self.accum
PathDiff(S, A) == CanonVec([i \in Idx |-> S.v[i] - A[i] * S.den], S.den)

\* M_comp = [[cos d2, -sin d2, d0], [sin d2, cos d2, d1]], given by the
\* angle and the translation it is built from
RigidMatrix(d) == [den |-> d.den, angle |-> d.v[3], tx |-> d.v[1], ty |-> d.v[2]]

\* a hold that keeps the old reference frame
OnlineHoldKeepsReference(f, b, seen) ==
  /\ ret' = Some(HoldOutput(last_output, f))
  /\ branch' = b
  /\ prim' = seen
  /\ UNCHANGED <<prev_gray, accum, smooth_accum, last_output, ntracked>>

\* the hold exits of OnlineStabilizer.__call__
OnlineHold(f, b, seen) ==
  /\ prev_gray' = Some(Gray(f))
  /\ ret' = Some(HoldOutput(last_output, f))
  /\ branch' = b
  /\ prim' = seen
  /\ UNCHANGED <<accum, smooth_accum, last_output, ntracked>>

\* a tracked frame that smooths the path before the new delta is added
OnlineTrackSmoothsFirst(f, M) ==
  LET acc == <<accum[1] + M[1], accum[2] + M[2], accum[3] + M[3]>>
      sm == SmoothPath(alpha, smooth_accum, accum)
      stabilized == Warp(f, RigidMatrix(PathDiff(sm, acc)))
  IN /\ accum' = acc
     /\ smooth_accum' = sm
     /\ prev_gray' = Some(Gray(f))
     /\ last_output' = Some(stabilized)
     /\ ret' = Some(stabilized)
     /\ branch' = "tracked"
     /\ ntracked' = ntracked + 1

\* a tracked frame that stores the delta as the path instead of adding it
OnlineTrackOverwrites(f, M) ==
  LET acc == M
      sm == SmoothPath(alpha, smooth_accum, acc)
      stabilized == Warp(f, RigidMatrix(PathDiff(sm, acc)))
  IN /\ accum' = acc
     /\ smooth_accum' = sm
     /\ prev_gray' = Some(Gray(f))
     /\ last_output' = Some(stabilized)
     /\ ret' = Some(stabilized)
     /\ branch' = "tracked"
     /\ ntracked' = ntracked + 1

\* OnlineStabilizer.__call__ after a successful fit M = <<dx, dy, da>>
OnlineTrack(f, M) ==
  LET acc == <<accum[1] + M[1], accum[2] + M[2], accum[3] + M[3]>>
      sm == SmoothPath(alpha, smooth_accum, acc)
      stabilized == Warp(f, RigidMatrix(PathDiff(sm, acc)))
  IN /\ accum' = acc
     /\ smooth_accum' = sm
     /\ prev_gray' = Some(Gray(f))
     /\ last_output' = Some(stabilized)
     /\ ret' = Some(stabilized)
     /\ branch' = "tracked"
     /\ ntracked' = ntracked + 1

\* __call__ when self.prev_gray is None: "First frame: just initialize state"
OnlineFirst(f) ==
  /\ prev_gray' = Some(Gray(f))
  /\ last_output' = Some(Unwarped(f))
  /\ ret' = Some(Unwarped(f))
  /\ branch' = "first"
  /\ prim' = NoPrim
  /\ UNCHANGED <<online_state, ntracked>>

\* the body of OnlineStabilizer.__call__(frame_bgr)
OnlineCallBody(f) ==
  /\ kind = "OnlineStabilizer"
  /\ ncalls < CallBound
  /\ ncalls' = ncalls + 1
  /\ frame' = Some(f)
  /\ UNCHANGED <<config, fast_state>>
  /\ IF prev_gray = None THEN OnlineFirst(f)
     ELSE \E det \in RigidDetectCounts :
       LET s1 == [NoPrim EXCEPT !.det = Some(det)]
       IN
       IF det < MinRigidPoints THEN OnlineHold(f, "hold_features", s1)
       ELSE \E tr \in {t \in RigidTrackOutcomes : t = None \/ t[1] <= det} :
         LET s2 == [s1 EXCEPT !.tr = Some(tr)]
         IN
         IF tr = None THEN OnlineHold(f, "hold_flow", s2)
         ELSE IF tr[1] < MinRigidPoints THEN OnlineHold(f, "hold_points", s2)
         ELSE \E fit \in RigidFits :
           LET s3 == [s2 EXCEPT !.fit = Some(fit)]
           IN
           IF fit = None THEN OnlineHold(f, "hold_fit", s3)
           ELSE OnlineTrack(f, fit[1]) /\ prim' = s3
  /\ motion' = [frames |-> motion.frames + 1,
                deltas |-> IF branch' = "tracked"
                           THEN motion.deltas \cup {prim'.fit[1][1]}
                           ELSE motion.deltas]

\* OnlineStabilizer.__call__(frame_bgr), called by the user of the instance
OnlineCall(f) == OnlineCallBody(f) /\ UNCHANGED ind

\* a reset that keeps the last output
OnlineResetKeepsOutput ==
  /\ kind = "OnlineStabilizer"
  /\ prev_gray' = None
  /\ accum' = <<0, 0, 0>>
  /\ smooth_accum' = ZeroPath
  /\ branch' = "reset"
  /\ ntracked' = 0
  /\ motion' = NoMotion
  /\ UNCHANGED <<config, fast_state, frame, ret, prim, ncalls, ind, last_output>>

\* OnlineStabilizer.reset()
OnlineReset ==
  /\ kind = "OnlineStabilizer"
  /\ prev_gray' = None
  /\ accum' = <<0, 0, 0>>
  /\ smooth_accum' = ZeroPath
  /\ last_output' = None
  /\ branch' = "reset"
  /\ ntracked' = 0
  /\ motion' = NoMotion
  /\ UNCHANGED <<config, fast_state, frame, ret, prim, ncalls, ind>>

OnlineNext ==
  \/ \E f \in Frames : OnlineCall(f)
  \/ OnlineReset

\* ------------------------------------------------------------- indicators

\* float("nan")
NaNValue == [nan |-> TRUE, raised |-> FALSE, num |-> 0, den |-> 1]

\* the float num / den (den > 0), in lowest terms
Rat(n, d) ==
  LET g == GCD(n, d)
  IN [nan |-> FALSE, raised |-> FALSE, num |-> n \div g, den |-> d \div g]

\* an exception leaves the function
Raised == [nan |-> FALSE, raised |-> TRUE, num |-> 0, den |-> 1]

\* pixels of a frame: CAP_PROP_FRAME_HEIGHT * CAP_PROP_FRAME_WIDTH (2 x 2)
FramePixels == 4

\* A frame of a video file: lum is its luminance plane (cv2.cvtColor); det,
\* tr and fit are what the primitives give when the motion from the frame
\* before it is estimated: corners found on that frame (0: None), points
\* tracked with status 1 (None: pts_next is None) and the translation
\* <<M[0,2], M[1,2]>> of the fitted transform (None: M is None).
VideoFrame(l, det, tr, fit) ==
  [lum |-> <<l[1], l[2], l[3], l[4]>>, det |-> det, tr |-> tr, fit |-> fit]

Uniform(v) == <<v, v, v, v>>

\* a black frame without corners
BlackFrame == VideoFrame(Uniform(0), 0, None, None)

\* frames on which every estimation succeeds: no motion, (3, 4) and (6, 8)
StillFrame == VideoFrame(Uniform(200), 8, Some(8), Some(<<0, 0>>))

MovedFrame == VideoFrame(Uniform(200), 8, Some(8), Some(<<3, 4>>))

JumpedFrame == VideoFrame(Uniform(100), 8, Some(8), Some(<<6, 8>>))

FrameKinds ==
  {BlackFrame, StillFrame, MovedFrame, JumpedFrame,
   \* luminance at the threshold, too few corners
   VideoFrame(Uniform(Threshold), 5, None, None),
   \* half of the frame black, pts_next is None
   VideoFrame(<<0, 0, 200, 200>>, 8, None, None),
   \* luminance just above the threshold, too few points tracked
   VideoFrame(Uniform(Threshold + 1), 8, Some(5), None),
   \* no transform fitted
   VideoFrame(Uniform(200), 8, Some(8), None)}

\* the video files of at most n frames of the given kinds
VideosOf(kinds, n) == UNION {[1..k -> kinds] : k \in 0..n}

Videos == VideosOf(FrameKinds, MaxVideo)

\* video pairs for stability_improvement
MotionVideos == VideosOf({BlackFrame, StillFrame, MovedFrame, JumpedFrame}, MaxPair)

\* video pairs for distortion_value_from_videos: frames of one luminance
UniformVideos == VideosOf({BlackFrame, MovedFrame, JumpedFrame}, MaxPair)

\* videos of which only the length matters
PlainVideos == VideosOf({MovedFrame}, MaxVideo)

\* max_frames: None or a number
MaxFramesArgs == {None, Some(0), Some(1), Some(2)}

\* warmup_frames
WarmupArgs == {0, 2, 5}

\* milliseconds one call of stabilize_fn takes on the clock
CallMs == {1, 3}

\* "max_frames is not None and n >= max_frames"
LimitReached(mf, n) == mf # None /\ n >= mf[1]

\* the frames a read loop bounded by max_frames gets from avail frames
FramesRead(mf, avail) == IF mf = None THEN avail ELSE Min2(avail, mf[1])

\* the loop of _camera_motion_magnitudes from frame i of the video on; a
\* magnitude np.hypot(dx, dy) is given by its square
RECURSIVE MotionLoop(_, _, _)
MotionLoop(video, i, mf) ==
  IF LimitReached(mf, i - 2) \/ i > Len(video) THEN <<>>
  ELSE LET f == video[i]
           fitted == /\ f.det >= MinMotionPoints
                     /\ f.tr # None /\ f.tr[1] >= MinMotionPoints
                     /\ f.fit # None
           dx == f.fit[1][1]
           dy == f.fit[1][2]
       IN (IF fitted THEN <<dx * dx + dy * dy>> ELSE <<>>)
            \o MotionLoop(video, i + 1, mf)

\* _camera_motion_magnitudes(video_path, max_frames): the squared magnitudes
CameraMotionMagnitudes(video, mf) ==
  IF Len(video) = 0 THEN <<>> ELSE MotionLoop(video, 2, mf)

\* a score that is 0.0 when there is no motion sample
StabilityScoreEmptyIsZero(video, mf) ==
  LET motions == CameraMotionMagnitudes(video, mf)
  IN IF Len(motions) = 0 THEN Rat(0, 1) ELSE Rat(SumSeq(motions), Len(motions))

\* stability_score_from_video, given by its square: mean(square(motions))
StabilityScoreFromVideo(video, mf) ==
  LET motions == CameraMotionMagnitudes(video, mf)
  IN IF Len(motions) = 0 THEN NaNValue ELSE Rat(SumSeq(motions), Len(motions))

\* 1 - sqrt(q) clipped to [0, 1], given by the q in [0, 1] it is 1 - sqrt of
OneMinusRoot(n, d) == IF n >= d THEN Rat(1, 1) ELSE Rat(n, d)

\* the division without the test for a zero baseline: s_after / 0.0 of two
\* Python floats raises ZeroDivisionError
StabilityImprovementNoZeroTest(before, after, mf) ==
  LET s_before == StabilityScoreFromVideo(before, mf)
      s_after == StabilityScoreFromVideo(after, mf)
  IN IF s_before.nan \/ s_after.nan THEN NaNValue
     ELSE IF s_before.num = 0 THEN Raised
     ELSE OneMinusRoot(s_after.num * s_before.den, s_after.den * s_before.num)

\* stability_improvement: np.clip(1.0 - s_after / s_before, 0.0, 1.0) is
\* 1 - sqrt(q) for q = s_after^2 / s_before^2; the result is given by q
StabilityImprovement(before, after, mf) ==
  LET s_before == StabilityScoreFromVideo(before, mf)
      s_after == StabilityScoreFromVideo(after, mf)
  IN IF s_before.nan \/ s_after.nan \/ s_before.num = 0 THEN NaNValue
     ELSE OneMinusRoot(s_after.num * s_before.den, s_after.den * s_before.num)

\* a mask that also takes the pixels at the threshold
MaskSumFromThreshold(f) ==
  Cardinality({k \in 1..FramePixels : f.lum[k] >= Threshold})

\* (gray > threshold).sum()
MaskSum(f) == Cardinality({k \in 1..FramePixels : f.lum[k] > Threshold})

RECURSIVE MaskSums(_, _)
MaskSums(video, n) == IF n = 0 THEN 0 ELSE MaskSum(video[n]) + MaskSums(video, n - 1)

\* cropping_ratio_from_video(video_path, 3, max_frames)
CroppingRatioFromVideo(video, mf) ==
  LET n == FramesRead(mf, Len(video))
  IN IF n = 0 THEN NaNValue ELSE Rat(MaskSums(video, n), FramePixels * n)

\* 1.0 - ssim with a denominator offset that is not below the precision
OneMinusSsimCoarseOffset(fa, fb) ==
  LET x == fa.lum[1]
      y == fb.lum[1]
  IN Rat(400 * (x - y) * (x - y) + 1, 400 * (x * x + y * y) + 2601 + 1)

\* 1.0 - _ssim_gray(a, b) for frames of the luminances x and y: the blurs
\* give mu = x, y and sigma = 0, so SSIM = (2xy + C1) / (x^2 + y^2 + C1)
\* with C1 = (0.01 * 255)^2 = 2601 / 400 (the 1e-8 is below float32)
OneMinusSsim(fa, fb) ==
  LET x == fa.lum[1]
      y == fb.lum[1]
  IN Rat(400 * (x - y) * (x - y), 400 * (x * x + y * y) + 2601)

\* a loop that tests the limit after the pair is scored (n > max_frames)
DistortionValueLimitLate(raw, stab, mf) ==
  LET n == Min2(IF mf = None THEN MaxPair + 1 ELSE mf[1] + 1,
                Min2(Len(raw), Len(stab)))
  IN [nan |-> n = 0, raised |-> FALSE,
      vals |-> [k \in 1..n |-> OneMinusSsim(raw[k], stab[k])]]

\* distortion_value_from_videos: vals, whose np.mean is the result
DistortionValueFromVideos(raw, stab, mf) ==
  LET n == FramesRead(mf, Min2(Len(raw), Len(stab)))
  IN [nan |-> n = 0, raised |-> FALSE,
      vals |-> [k \in 1..n |-> OneMinusSsim(raw[k], stab[k])]]

\* a timed run that reads on from where the warm-up stopped
LatencyCallsNoRewind(video, warmup, mf, seek_ok, warm_ms, ms) ==
  LET warm == Min2(warmup, Len(video))
      n == FramesRead(mf, Len(video) - warm)
  IN [k \in 1..warm |-> [frame |-> k, timed |-> FALSE, ms |-> warm_ms]]
       \o [k \in 1..n |-> [frame |-> warm + k, timed |-> TRUE, ms |-> ms]]

\* the calls measure_latency makes of stabilize_fn, in order: the frame given
\* (frame 1 is the first of the stream), whether the clock is read around the
\* call, and the milliseconds the call takes
LatencyCalls(video, warmup, mf, seek_ok, warm_ms, ms) ==
  LET warm == Min2(warmup, Len(video))
      pos == IF seek_ok THEN 0 ELSE warm
      n == FramesRead(mf, Len(video) - pos)
  IN [k \in 1..warm |-> [frame |-> k, timed |-> FALSE, ms |-> warm_ms]]
       \o [k \in 1..n |-> [frame |-> pos + k, timed |-> TRUE, ms |-> ms]]

\* the mean without the test for n == 0: total_ms / 0 raises
MeasureLatencyNoEmptyTest(video, warmup, mf, seek_ok, ms) ==
  LET warm == Min2(warmup, Len(video))
      pos == IF seek_ok THEN 0 ELSE warm
      n == FramesRead(mf, Len(video) - pos)
  IN IF n = 0 THEN Raised ELSE Rat(ms * n, n)

\* measure_latency: the warm-up reads up to warmup frames, cap.set rewinds
\* the stream (seek_ok) or leaves it where it is, the timed run reads on
MeasureLatency(video, warmup, mf, seek_ok, ms) ==
  LET warm == Min2(warmup, Len(video))
      pos == IF seek_ok THEN 0 ELSE warm
      n == FramesRead(mf, Len(video) - pos)
  IN IF n = 0 THEN NaNValue ELSE Rat(ms * n, n)

\* ------------------------------------------------------------ specification

Next == FastNext \/ OnlineNext

Spec == Init /\ [][Next]_vars

\* the indicators are functions of video files: no stabilizer instance is
\* part of a call, and one call is made in a behaviour
IndInit ==
  /\ kind = "none"
  /\ profile = "short"
  /\ alpha_arg = 2
  /\ alpha = 2
  /\ flow_method = "none"
  /\ min_flow_points = 0
  /\ Fresh
  /\ NoCallYet
  /\ ind = NoIndicator

\* a call of the indicator function op with its arguments and its result
IndicatorCall(op, a, b, mf, opts, out) ==
  /\ ind' = [op |-> op, a |-> a, b |-> b, max_frames |-> mf, opts |-> opts,
             out |-> out]
  /\ UNCHANGED <<config, prev_gray, fast_state, online_state, last_output,
                 frame, ret, prim, branch, ntracked, ncalls, motion>>

CallMeasureLatency ==
  /\ ind = NoIndicator
  /\ \E video \in PlainVideos, warmup \in WarmupArgs, mf \in MaxFramesArgs,
        seek_ok \in BOOLEAN, ms \in CallMs, warm_ms \in CallMs :
       IndicatorCall("measure_latency", video, <<>>, mf,
                     [warmup |-> warmup, seek_ok |-> seek_ok, ms |-> ms,
                      calls |-> LatencyCalls(video, warmup, mf, seek_ok,
                                             warm_ms, ms)],
                     MeasureLatency(video, warmup, mf, seek_ok, ms))

CallStabilityScore ==
  /\ ind = NoIndicator
  /\ \E video \in Videos, mf \in MaxFramesArgs :
       IndicatorCall("stability_score_from_video", video, <<>>, mf, <<>>,
                     StabilityScoreFromVideo(video, mf))

CallStabilityImprovement ==
  /\ ind = NoIndicator
  /\ \E before \in MotionVideos, after \in MotionVideos, mf \in MaxFramesArgs :
       IndicatorCall("stability_improvement", before, after, mf, <<>>,
                     StabilityImprovement(before, after, mf))

CallCroppingRatio ==
  /\ ind = NoIndicator
  /\ \E video \in Videos, mf \in MaxFramesArgs :
       IndicatorCall("cropping_ratio_from_video", video, <<>>, mf, <<>>,
                     CroppingRatioFromVideo(video, mf))

CallDistortionValue ==
  /\ ind = NoIndicator
  /\ \E raw \in UniformVideos, stab \in UniformVideos, mf \in MaxFramesArgs :
       IndicatorCall("distortion_value_from_videos", raw, stab, mf, <<>>,
                     DistortionValueFromVideos(raw, stab, mf))

IndNext ==
  \/ CallMeasureLatency
  \/ CallStabilityScore
  \/ CallStabilityImprovement
  \/ CallCroppingRatio
  \/ CallDistortionValue

IndSpec == IndInit /\ [][IndNext]_vars

\* --------------------------------------------------------- video resources

\* a video path: it opens and holds frames, or it cannot be opened
Paths ==
  {[openable |-> TRUE, video |-> v] : v \in VideosOf({MovedFrame}, 1)}
    \cup {[openable |-> FALSE, video |-> <<>>]}

\* _open_video(path): the capture, given by the frames it will read, or None
\* when cap.isOpened() is false and RuntimeError is raised
OpenVideo(path) == IF path.openable THEN Some(path.video) ELSE None

IndicatorNames ==
  {"measure_latency", "stability_score_from_video", "stability_improvement",
   "cropping_ratio_from_video", "distortion_value_from_videos"}

\* the indicator functions that take two video paths
TwoPaths == {"stability_improvement", "distortion_value_from_videos"}

\* the indicator function fn on the paths a and b (b is read only by the
\* functions of two paths), with its other arguments at their defaults: every
\* function opens its streams through _open_video before anything else
IndicatorOnPaths(fn, a, b) ==
  IF OpenVideo(a) = None \/ (fn \in TwoPaths /\ OpenVideo(b) = None) THEN Raised
  ELSE LET va == OpenVideo(a)[1]
           vb == OpenVideo(b)[1]
       IN CASE fn = "measure_latency" -> MeasureLatency(va, 0, None, TRUE, 1)
            [] fn = "stability_score_from_video" -> StabilityScoreFromVideo(va, None)
            [] fn = "stability_improvement" -> StabilityImprovement(va, vb, None)
            [] fn = "cropping_ratio_from_video" -> CroppingRatioFromVideo(va, None)
            [] fn = "distortion_value_from_videos" ->
                 DistortionValueFromVideos(va, vb, None)

\* one call of an indicator function on video paths, made before the
\* stabilizer is given a frame; the stabilizer that may be behind stabilize_fn
\* is not reached before the stream is open
CallIndicatorOnPaths ==
  /\ ind = NoIndicator
  /\ ncalls = 0
  /\ \E fn \in IndicatorNames, a \in Paths, b \in Paths :
       /\ fn \in TwoPaths \/ b = a
       /\ ind' = [op |-> fn, a |-> a, b |-> b, out |-> IndicatorOnPaths(fn, a, b)]
       /\ UNCHANGED <<config, prev_gray, fast_state, online_state, last_output,
                      frame, ret, prim, branch, ntracked, ncalls, motion>>

\* a reset that leaves the accumulated path of the stabilizer as it is
ResetStabilizerKeepsPath ==
  /\ prev_gray' = None
  /\ last_output' = None
  /\ branch' = "reset"
  /\ ntracked' = 0
  /\ IF kind = "FastStabilizer"
     THEN /\ prev_corners' = None
          /\ smoothed_transform' = Eye
          /\ transform_history' = <<>>
          /\ confidence_history' = <<>>
          /\ UNCHANGED <<cumulative_transform, online_state, motion>>
     ELSE /\ smooth_accum' = ZeroPath
          /\ motion' = NoMotion
          /\ UNCHANGED <<accum, fast_state>>

\* stabilizer.reset() as the writers call it, for either class
ResetStabilizer ==
  /\ prev_gray' = None
  /\ last_output' = None
  /\ branch' = "reset"
  /\ ntracked' = 0
  /\ IF kind = "FastStabilizer"
     THEN /\ prev_corners' = None
          /\ cumulative_transform' = Eye
          /\ smoothed_transform' = Eye
          /\ transform_history' = <<>>
          /\ confidence_history' = <<>>
          /\ UNCHANGED <<online_state, motion>>
     ELSE /\ accum' = <<0, 0, 0>>
          /\ smooth_accum' = ZeroPath
          /\ motion' = NoMotion
          /\ UNCHANGED fast_state

\* the state of a writer: cap and vw are "none" before they are constructed,
\* "closed" when isOpened() was false, "open", or "released"
Writer(op, cap, vw, pc) == [op |-> op, cap |-> cap, vw |-> vw, pc |-> pc]

\* limit_frames given to a writer
LimitFramesArgs == {None, Some(0), Some(2)}

\* a writer entering its loop on an input stream of nframes frames: n frames
\* read so far, written = the frames given to vw.write, each with the index
\* (from 1) of the input frame it was made from
WriterLoop(op, nframes, limit) ==
  [op |-> op, cap |-> "open", vw |-> "open", pc |-> "loop",
   nframes |-> nframes, limit |-> limit, n |-> 0, written |-> <<>>]

\* a writer that raises on a closed VideoWriter without releasing the capture
WriteVideoLeaksCapture(op, in_ok, out_ok) ==
  IF ~in_ok
  THEN /\ ind' = Writer(op, "closed", "none", "raised")
       /\ UNCHANGED <<config, prev_gray, fast_state, online_state, last_output,
                      frame, ret, prim, branch, ntracked, ncalls, motion>>
  ELSE IF ~out_ok
  THEN /\ ind' = Writer(op, "open", "closed", "raised")
       /\ UNCHANGED <<config, prev_gray, fast_state, online_state, last_output,
                      frame, ret, prim, branch, ntracked, ncalls, motion>>
  ELSE /\ \E nframes \in 0..(CallBound - ncalls), limit \in LimitFramesArgs :
            ind' = WriterLoop(op, nframes, limit)
       /\ ResetStabilizer
       /\ UNCHANGED <<config, frame, ret, prim, ncalls>>

\* write_stabilized_video / write_fast_stabilized_video up to their loop:
\* open the input (RuntimeError when closed), open the output (release the
\* input and RuntimeError when closed), reset the stabilizer; the input holds
\* as many frames as the bound on calls leaves
WriteVideo(op, in_ok, out_ok) ==
  IF ~in_ok
  THEN /\ ind' = Writer(op, "closed", "none", "raised")
       /\ UNCHANGED <<config, prev_gray, fast_state, online_state, last_output,
                      frame, ret, prim, branch, ntracked, ncalls, motion>>
  ELSE IF ~out_ok
  THEN /\ ind' = Writer(op, "released", "closed", "raised")
       /\ UNCHANGED <<config, prev_gray, fast_state, online_state, last_output,
                      frame, ret, prim, branch, ntracked, ncalls, motion>>
  ELSE /\ \E nframes \in 0..(CallBound - ncalls), limit \in LimitFramesArgs :
            ind' = WriterLoop(op, nframes, limit)
       /\ ResetStabilizer
       /\ UNCHANGED <<config, frame, ret, prim, ncalls>>

\* write_stabilized_video(in_path, out_path, stabilizer)
WriteStabilizedVideo ==
  /\ ind = NoIndicator
  /\ kind = "OnlineStabilizer"
  /\ \E in_ok \in BOOLEAN :
       \E out_ok \in (IF in_ok THEN BOOLEAN ELSE {TRUE}) :
         WriteVideo("write_stabilized_video", in_ok, out_ok)

\* write_fast_stabilized_video(in_path, out_path, stabilizer)
WriteFastStabilizedVideo ==
  /\ ind = NoIndicator
  /\ kind = "FastStabilizer"
  /\ \E in_ok \in BOOLEAN :
       \E out_ok \in (IF in_ok THEN BOOLEAN ELSE {TRUE}) :
         WriteVideo("write_fast_stabilized_video", in_ok, out_ok)

\* the writer is in its loop, where it calls the stabilizer on each frame
InWriterLoop ==
  /\ ind.op \in {"write_stabilized_video", "write_fast_stabilized_video"}
  /\ ind.pc = "loop"

\* the loop of the writer goes on: limit_frames is not reached and
\* cap.read() gives a frame
WriterReads ==
  /\ IF ind.limit = None THEN TRUE ELSE ind.n < ind.limit[1]
  /\ ind.n < ind.nframes

\* one turn of the loop of a writer: read a frame, call the stabilizer on it,
\* vw.write(out), n += 1; an exception of the stabilizer leaves the writer
\* through the loop, past vw.release() and cap.release()
WriteVideoFrame ==
  /\ InWriterLoop
  /\ WriterReads
  /\ \E f \in Frames :
       /\ IF kind = "FastStabilizer" THEN FastCallBody(f) ELSE OnlineCallBody(f)
       /\ ind' = IF ret' = None
                 THEN [ind EXCEPT !.pc = "raised"]
                 ELSE [ind EXCEPT !.n = @ + 1,
                                  !.written = Append(@, [input |-> ind.n + 1,
                                                         out |-> ret'[1]])]

\* the loop of a writer ends (limit_frames reached or cap.read() fails):
\* vw.release(), cap.release()
WriteVideoEnd ==
  /\ InWriterLoop
  /\ ~WriterReads
  /\ ind' = [ind EXCEPT !.cap = "released", !.vw = "released", !.pc = "done"]
  /\ UNCHANGED <<config, prev_gray, fast_state, online_state, last_output,
                 frame, ret, prim, branch, ntracked, ncalls, motion>>

\* a stabilizer in use, given to a writer or behind an indicator call
OpenInit ==
  /\ NoCallYet
  /\ ind = NoIndicator
  /\ profile = "short"
  /\ \/ \E fm \in {"farneback", "lucas_kanade"} : FastInit(1, fm, 10)
     \/ OnlineInit(1)

\* the stabilizer is called by its user before the writer is called; in its
\* loop the writer calls it
StabilizerInUse == ind = NoIndicator

\* a behaviour ends when the writer or the indicator function has returned
\* or raised
OpenNext ==
  \/ StabilizerInUse /\ \E f \in Frames : FastCall(f)
  \/ StabilizerInUse /\ \E f \in Frames : OnlineCall(f)
  \/ WriteStabilizedVideo
  \/ WriteFastStabilizedVideo
  \/ WriteVideoFrame
  \/ WriteVideoEnd
  \/ CallIndicatorOnPaths

OpenSpec == OpenInit /\ [][OpenNext]_vars

\* ------------------------------------------------- points given to the fit

\* values of confidence_threshold, in tenths: 0.4 and the default 0.6
ThresholdArgs == {4, 6}

\* confidences of single points, in tenths: at, below and above the
\* thresholds and their halves
PointConfidences == {2, 3, 4, 5, 7}

\* confidence_weights: None, or one confidence per entry
ConfidenceWeights ==
  {None} \cup {Some(c) : c \in UNION {[1..n -> PointConfidences] : n \in 3..MaxPoints}}

\* outcomes of cv2.findHomography drawn for a single estimation
SelectionFits == {[tag |-> "ok", H |-> HShift], [tag |-> "none", H |-> Eye]}

\* a mask that takes the points at the threshold too
FitPointSelectionInclusive(npts, weights, t) ==
  IF weights # None /\ Len(weights[1]) = npts
  THEN LET conf == weights[1]
           full == {i \in 1..npts : conf[i] >= t}
           half == {i \in 1..npts : 2 * conf[i] >= t}
           conf_mask == IF Cardinality(full) < MinFitPoints THEN half ELSE full
       IN IF Cardinality(conf_mask) >= MinFitPoints THEN conf_mask ELSE 1..npts
  ELSE 1..npts

\* the indices of the points _estimate_homography_from_flow passes to
\* cv2.findHomography: "Filter points by confidence"
FitPointSelection(npts, weights, t) ==
  IF weights # None /\ Len(weights[1]) = npts
  THEN LET conf == weights[1]
           full == {i \in 1..npts : conf[i] > t}
           half == {i \in 1..npts : 2 * conf[i] > t}
           conf_mask == IF Cardinality(full) < MinFitPoints THEN half ELSE full
       IN IF Cardinality(conf_mask) >= MinFitPoints THEN conf_mask ELSE 1..npts
  ELSE 1..npts

\* one call of _estimate_homography_from_flow on npts correspondences; no
\* stabilizer field is read but self.confidence_threshold
FitInit ==
  /\ kind = "none"
  /\ profile = "short"
  /\ alpha_arg = 2
  /\ alpha = 2
  /\ flow_method = "none"
  /\ min_flow_points = 0
  /\ Fresh
  /\ NoCallYet
  /\ ind = NoIndicator

CallEstimateHomography ==
  /\ ind = NoIndicator
  /\ \E npts \in 3..MaxPoints, weights \in ConfidenceWeights, t \in ThresholdArgs,
        fit \in SelectionFits :
       /\ ind' = [op |-> "_estimate_homography_from_flow", npts |-> npts,
                  weights |-> weights, threshold |-> t,
                  selected |-> IF npts < MinFitPoints THEN None
                               ELSE Some(FitPointSelection(npts, weights, t)),
                  out |-> EstimateHomographyFromFlow(npts, fit)]
       /\ UNCHANGED <<config, prev_gray, fast_state, online_state, last_output,
                      frame, ret, prim, branch, ntracked, ncalls, motion>>

FitNext == CallEstimateHomography

FitSpec == FitInit /\ [][FitNext]_vars

\* ------------------------------------------------------------------ claims

IsCall == ncalls' = ncalls + 1

Fast == kind = "FastStabilizer"

Online == kind = "OnlineStabilizer"

\* the latest operation was a __call__
AfterCall == ncalls > 0 /\ branch # "reset"

\* the output held by the stabilizer is a warped frame
WarpedOutput(o) == o # None /\ o[1].comp # None

\* C1: every __call__ returns a frame and never raises, whatever the
\* primitives give; a cumulative transform that cannot be inverted is
\* replaced by the identity.  (Refuted: np.linalg.inv raises.)
C1_CallAlwaysReturns == AfterCall => ret # None

\* C2: in FastStabilizer, for either flow method, a call that obtains fewer
\* correspondences than min_flow_points leaves cumulative_transform, the
\* smoothed path and both histories unchanged, stores the new frame as
\* reference and returns the last output.  (Refuted for "farneback".)
C2_HoldBelowMinimum ==
  [][(Fast /\ IsCall /\ prev_gray # None
        /\ prim'.points # None /\ prim'.points[1] < min_flow_points)
     => /\ UNCHANGED <<cumulative_transform, smoothed_transform,
                       transform_history, confidence_history>>
        /\ prev_gray' = Some(Gray(frame'[1]))
        /\ ret' = last_output]_vars

\* estimation fails in OnlineStabilizer: fewer than 6 features, no tracking
\* result, fewer than 6 tracked points, or no fitted transform
RigidEstimationFails(p) ==
  \/ p.det = None \/ p.det[1] < 6
  \/ p.tr = None \/ p.tr[1] = None \/ p.tr[1][1] < 6
  \/ p.fit = None \/ p.fit[1] = None

\* C3: in OnlineStabilizer, on a non-first frame where estimation fails,
\* accum and smooth_accum are unchanged, the reference frame becomes the new
\* frame, _last_output is unchanged and the value returned is the output of
\* the previous call.
C3_OnlineHoldOnFailure ==
  [][(Online /\ IsCall /\ prev_gray # None /\ RigidEstimationFails(prim'))
     => /\ accum' = accum
        /\ smooth_accum' = smooth_accum
        /\ prev_gray' = Some(Gray(frame'[1]))
        /\ last_output' = last_output
        /\ ret # None
        /\ ret' = ret]_vars

C3_Witness ==
  /\ Online
  /\ branch \in {"hold_features", "hold_flow", "hold_points", "hold_fit"}
  /\ WarpedOutput(ret)
  /\ accum # <<0, 0, 0>>

\* C4: after every __call__, whatever branch it took, prev_gray is the
\* grayscale of the frame just presented.  (Refuted by the call that raises.)
C4_ReferenceIsLatestFrame == AfterCall => prev_gray = Some(Gray(frame[1]))

\* C5: the first call on an uninitialized stabilizer returns the frame
\* unchanged, stores it as reference and changes no path state or history;
\* FastStabilizer's info is the same before and after it.
C5_FirstFrameUnchanged ==
  [][(IsCall /\ prev_gray = None)
     => /\ ret' = Some(Unwarped(frame'[1]))
        /\ prev_gray' = Some(Gray(frame'[1]))
        /\ UNCHANGED <<cumulative_transform, smoothed_transform, transform_history,
                       confidence_history, accum, smooth_accum>>
        /\ Info' = Info]_vars

C5_Witness == Fast /\ branch = "first" /\ ncalls > 1 /\ ret = Some(Unwarped(frame[1]))

\* C6: after FastStabilizer.reset(), info reports avg_confidence 0 and
\* transform magnitude 0, and the next frame is handled as a first frame:
\* returned unchanged, no flow or fit computed, no history entry added.
C6_ResetThenFirstFrame ==
  [][Fast =>
       /\ branch' = "reset" =>
            /\ Info'.avg_confidence.num = 0
            /\ ~Info'.transform_norm.nan
            /\ Info'.transform_norm.num = 0
       /\ (branch = "reset" /\ IsCall) =>
            /\ ret' = Some(Unwarped(frame'[1]))
            /\ prev_gray' = Some(Gray(frame'[1]))
            /\ prim' = NoPrim
            /\ transform_history' = <<>>
            /\ confidence_history' = <<>>]_vars

C6_Witness == Fast /\ branch = "reset" /\ WarpedOutput(ret)

\* C7: reset() of either stabilizer restores every piece of mutable state to
\* its value right after construction and leaves the configuration unchanged.
C7_ResetRestoresFresh ==
  [][(branch' = "reset" /\ branch # "reset") => (Fresh' /\ UNCHANGED config)]_vars

C7_Witness == Online /\ branch = "reset" /\ WarpedOutput(ret) /\ alpha = 1

\* C8: in every reachable state of FastStabilizer both history lists hold at
\* most 30 entries.
C8_HistoryBounded ==
  Len(transform_history) <= 30 /\ Len(confidence_history) <= 30

C8_Witness == Len(transform_history) = 30 /\ ntracked > 30

\* avg_confidence of the info, a rational num / den, lies in [0.1, 1.0]
ConfidenceInRange(c) == 10 * c.num >= c.den /\ c.num <= c.den

\* C9 as stated: the avg_confidence reported by get_stabilization_info() is
\* in [0.1, 1.0] in every reachable state.  (Refuted: 0.0 with no history.)
C9_ConfidenceAlwaysInRange == Fast => ConfidenceInRange(Info.avg_confidence)

\* C9 amended: the avg_confidence reported by get_stabilization_info() is
\* 0.0 while the confidence history is empty and in [0.1, 1.0] otherwise.
C9_ConfidenceInRangeOrZero ==
  Fast => IF Len(confidence_history) = 0
          THEN Info.avg_confidence.num = 0
          ELSE ConfidenceInRange(Info.avg_confidence)

C9_Witness ==
  /\ Fast /\ branch = "tracked" /\ prim.mean = Some(0)
  /\ Len(confidence_history) = 2

\* C10: the info query returns all three fields in every reachable state,
\* also before any frame and right after reset, and the history-length
\* field is the number of history entries.  (Refuted with no history.)
C10_InfoHasThreeFields ==
  Fast =>
    /\ DOMAIN Info = {"avg_confidence", "transform_norm", "num_transforms"}
    /\ Info.num_transforms = Len(transform_history)

\* the latest entry of a history list
Latest(h) == h[Len(h)]

\* C11: in every reachable state of FastStabilizer the cumulative transform
\* is finite and invertible; a fitted homography that is not is replaced by
\* the identity before it is composed.  (Refuted: the fit is composed as
\* cv2.findHomography returns it.)
C11_RawPathInvertible ==
  Fast => ~cumulative_transform.nan /\ Det(cumulative_transform.m) # 0

\* C12: FastStabilizer's history is used only for reporting.  A tracked call
\* made with cumulative_transform = I has a twin: the same instance and stream
\* whose earlier frames were held (flow error, too few points), which has the
\* same configuration, reference frame, raw path and smoothed_transform and
\* an empty history.  Both get the same smoothed path and the same output.
\* (Refuted: the EMA reads transform_history[-1].)
C12_HistoryOnlyReported ==
  [][(Fast /\ IsCall /\ branch' = "tracked" /\ cumulative_transform = Eye)
     => LET twin == AdaptiveSmoothing(<<>>, alpha, cumulative_transform',
                                      Latest(confidence_history'))
        IN /\ Latest(transform_history') = twin
           /\ ret'[1].comp # None
                => ret'[1].comp[1] = MatMul(twin, MatInv(cumulative_transform'))]_vars

\* C13: for every alpha passed to either constructor, also below 0 and above
\* 1, the stored alpha is alpha clamped into [0, 1] (in halves: [0, 2]).
C13_AlphaClamped ==
  /\ alpha >= 0 /\ alpha <= 2
  /\ alpha_arg < 0 => alpha = 0
  /\ alpha_arg > 2 => alpha = 2
  /\ (alpha_arg >= 0 /\ alpha_arg <= 2) => alpha = alpha_arg

C13_Witness ==
  /\ branch = "init" /\ prev_gray = None
  /\ \/ Online /\ alpha_arg = 3 /\ alpha = 2
     \/ Fast /\ alpha_arg = -1 /\ alpha = 0

\* the rigid transform x -> Rot(angle / den) x + (tx, ty) / den that a path
\* value <<dx, dy, da>> stands for (angles in radians, as atan2 gives them)
RigidOf(v) == [den |-> 1, angle |-> v[3], tx |-> v[1], ty |-> v[2]]

\* C o R = S for rigid transforms with rational angles and translations.
\* C o R is x -> Rot(C.angle + R.angle) x + Rot(C.angle) R.t + C.t.  For a
\* rational angle a # 0 the number cos(a) is transcendental, so Rot(a) t is
\* a rational vector only for t = 0.
ComposesTo(C, R, S) ==
  /\ (C.angle * R.den + R.angle * C.den) * S.den = S.angle * C.den * R.den
  /\ IF C.angle = 0
     THEN /\ (R.tx * C.den + C.tx * R.den) * S.den = S.tx * C.den * R.den
          /\ (R.ty * C.den + C.ty * R.den) * S.den = S.ty * C.den * R.den
     ELSE /\ R.tx = 0 /\ R.ty = 0
          /\ C.tx * S.den = S.tx * C.den
          /\ C.ty * S.den = S.ty * C.den

\* A = B as float arrays compare: no entry is NaN and all entries agree
FiniteEqual(A, B) == ~A.nan /\ ~B.nan /\ A = B

\* C14: after every tracked frame, the compensation applied to the frame
\* composed with the raw path gives the smoothed path: M_comp o rigid(accum)
\* = rigid(smooth_accum) for OnlineStabilizer, compensation_transform @
\* cumulative_transform = smoothed_transform for FastStabilizer.  (Refuted
\* for the rigid path: the difference of the parameters is not the quotient
\* of the transforms.)
C14_RoundTrip ==
  (branch = "tracked" /\ ret[1].comp # None) =>
    IF Online
    THEN ComposesTo(ret[1].comp[1], RigidOf(accum), RigidMatrix(smooth_accum))
    ELSE FiniteEqual(MatMul(ret[1].comp[1], cumulative_transform),
                     Latest(transform_history))

\* the rationals a <= b, each given as [num, den] with den > 0
LeqRat(a, b) == a.num * b.den <= b.num * a.den

\* squared length of the change of the rigid smoothed path from S0 to S1
PathStep(S0, S1) ==
  LET d(i) == S1.v[i] * S0.den - S0.v[i] * S1.den
  IN [num |-> d(1) * d(1) + d(2) * d(2) + d(3) * d(3),
      den |-> (S0.den * S1.den) * (S0.den * S1.den)]

\* squared Frobenius norm of the change of the smoothed transform from A to
\* B (both finite)
MatStep(A, B) ==
  LET d(i, j) == B.m[i][j] * A.den - A.m[i][j] * B.den
      sq(i) == d(i, 1) * d(i, 1) + d(i, 2) * d(i, 2) + d(i, 3) * d(i, 3)
  IN [num |-> sq(1) + sq(2) + sq(3), den |-> (A.den * B.den) * (A.den * B.den)]

\* the stored alphas a constructor can produce that exceed this instance's
LargerAlphas == {a2 \in {ClipAlpha(a) : a \in AlphaArgs} : a2 > alpha}

\* C15: higher alpha means smoother.  Instances that differ only in alpha
\* and see the same motion deltas are in the same path state up to the first
\* tracked frame (OnlineStabilizer) and up to the second (FastStabilizer,
\* whose first smoothed transform is the raw one); on that frame the
\* smoothed path of an instance with a larger alpha changes by no more than
\* this instance's.  (Refuted: the EMA weighs the new raw path by alpha.)
C15_HigherAlphaSmoother ==
  [][(IsCall /\ branch' = "tracked") =>
       /\ (Online /\ ntracked = 0) =>
            \A a2 \in LargerAlphas :
              LeqRat(PathStep(smooth_accum, SmoothPath(a2, smooth_accum, accum')),
                     PathStep(smooth_accum, smooth_accum'))
       /\ (Fast /\ ntracked = 1 /\ Len(transform_history) = 1
             /\ ~cumulative_transform'.nan /\ ~Latest(transform_history).nan) =>
            \A a2 \in LargerAlphas :
              LeqRat(MatStep(Latest(transform_history),
                             AdaptiveSmoothing(transform_history, a2,
                                               cumulative_transform',
                                               Latest(confidence_history'))),
                     MatStep(Latest(transform_history),
                             Latest(transform_history')))]_vars

\* every frame of the stream since construction or reset after the first
\* was tracked, each with the pure translation d = <<dx, dy, 0>>
ConstantTranslation(d) ==
  /\ Online /\ motion.frames >= 2
  /\ ntracked = motion.frames - 1
  /\ motion.deltas = {d} /\ d[3] = 0

\* n * (dx, dy, da)
Times(n, d) == <<n * d[1], n * d[2], n * d[3]>>

\* C16 as stated: after a stream of N frames whose consecutive pairs are all
\* estimated as the translation (dx, dy) without rotation, accum is
\* N * (dx, dy, 0).  (Refuted: N frames have N - 1 consecutive pairs.)
C16_AccumIsNTimesDelta ==
  \A d \in motion.deltas :
    ConstantTranslation(d) => accum = Times(motion.frames, d)

\* C16 amended: after such a stream of N frames accum is (N - 1) * (dx, dy, 0),
\* one delta for each frame after the first.
C16_AccumIsTrackedTimesDelta ==
  \A d \in motion.deltas :
    ConstantTranslation(d) => accum = Times(motion.frames - 1, d)

C16_Witness ==
  /\ ConstantTranslation(<<1, 2, 0>>)
  /\ motion.frames = MaxStream - 1 /\ ncalls = MaxStream
  /\ accum = <<MaxStream - 2, 2 * (MaxStream - 2), 0>>

\* the indicator call made is a call of op
Called(op) == ind.op = op

\* the steps (frame i - 1 to frame i) of a video that a call bounded by mf
\* reads and on which corners, tracking and fit all succeed
SampledSteps(video, mf) ==
  {i \in 2..Len(video) :
     /\ mf = None \/ i - 1 <= mf[1]
     /\ video[i].det >= 6
     /\ video[i].tr # None /\ video[i].tr[1] >= 6
     /\ video[i].fit # None}

\* dx^2 + dy^2 of step i
SquaredMotion(video, i) ==
  video[i].fit[1][1] * video[i].fit[1][1] + video[i].fit[1][2] * video[i].fit[1][2]

RECURSIVE SumSquaredMotion(_, _)
SumSquaredMotion(video, S) ==
  IF S = {} THEN 0
  ELSE LET i == CHOOSE x \in S : TRUE
       IN SquaredMotion(video, i) + SumSquaredMotion(video, S \ {i})

\* mean of the squared motions of the sampled steps, as num / den
MeanSquaredMotion(video, mf) ==
  [num |-> SumSquaredMotion(video, SampledSteps(video, mf)),
   den |-> Cardinality(SampledSteps(video, mf))]

\* C17: stability_improvement never raises; it returns NaN when either score
\* is NaN or s_before is 0, and otherwise clamp(1 - s_after / s_before, 0, 1),
\* a value in [0, 1].  (Scores are given by their squares and the result
\* 1 - sqrt(q) by q: it is in [0, 1] exactly when q is.)
C17_ImprovementClamped ==
  Called("stability_improvement") =>
    LET b == MeanSquaredMotion(ind.a, ind.max_frames)
        a == MeanSquaredMotion(ind.b, ind.max_frames)
        out == ind.out
    IN /\ ~out.raised
       /\ IF b.den = 0 \/ a.den = 0 \/ b.num = 0 THEN out.nan
          ELSE /\ ~out.nan
               /\ 0 <= out.num /\ out.num <= out.den
               /\ IF a.num * b.den >= b.num * a.den
                  THEN out.num = out.den
                  ELSE out.num * (b.num * a.den) = out.den * (a.num * b.den)

C17_Witness ==
  /\ Called("stability_improvement")
  /\ ~ind.out.nan /\ ind.out.num = 1 /\ ind.out.den = 4
  /\ ind.max_frames = None

\* C18: stability_score_from_video returns NaN exactly when the steps it
\* reads give no motion sample (empty or one-frame stream, every estimation
\* failing); otherwise the root mean square of the translation magnitudes,
\* which is >= 0, and 0 when every estimated translation is zero.  (The
\* score is given by its square.)
C18_ScoreIsRmsOrNaN ==
  Called("stability_score_from_video") =>
    LET m == MeanSquaredMotion(ind.a, ind.max_frames)
        S == SampledSteps(ind.a, ind.max_frames)
        out == ind.out
    IN /\ ~out.raised
       /\ out.nan <=> S = {}
       /\ Len(ind.a) <= 1 => out.nan
       /\ S # {} => /\ out.num >= 0
                    /\ out.num * m.den = out.den * m.num
                    /\ (\A i \in S : ind.a[i].fit[1] = <<0, 0>>) => out.num = 0

C18_Witness ==
  /\ Called("stability_score_from_video")
  /\ Len(ind.a) = 3 /\ ind.max_frames = Some(2)
  /\ ~ind.out.nan /\ ind.out.num = 125 /\ ind.out.den = 2

\* the frames a call bounded by max_frames reads from n frames
ReadOf(n) == IF ind.max_frames = None THEN n ELSE Min2(n, ind.max_frames[1])

\* the pixels above the threshold in the first n frames of the video
LitPixels(video, n) ==
  Cardinality({c \in (1..n) \X (1..FramePixels) : video[c[1]].lum[c[2]] > 3})

\* C19 as stated: when at least one frame is read, cropping_ratio_from_video
\* returns a value in (0, 1], the mean over the read frames of the fraction
\* of pixels above the threshold.  (Refuted: 0 for black frames.)
C19_CroppingRatioPositive ==
  (Called("cropping_ratio_from_video") /\ ReadOf(Len(ind.a)) >= 1) =>
    LET n == ReadOf(Len(ind.a))
        out == ind.out
    IN /\ ~out.raised /\ ~out.nan
       /\ 0 < out.num /\ out.num <= out.den
       /\ out.num * (FramePixels * n) = out.den * LitPixels(ind.a, n)

\* C19 amended: the value is in [0, 1], the mean over the read frames of the
\* fraction of pixels above the threshold, and 0 exactly when no read frame
\* has such a pixel.
C19_CroppingRatioInUnitInterval ==
  (Called("cropping_ratio_from_video") /\ ReadOf(Len(ind.a)) >= 1) =>
    LET n == ReadOf(Len(ind.a))
        out == ind.out
    IN /\ ~out.raised /\ ~out.nan
       /\ 0 <= out.num /\ out.num <= out.den
       /\ out.num * (FramePixels * n) = out.den * LitPixels(ind.a, n)
       /\ out.num = 0 <=> LitPixels(ind.a, n) = 0

C19_Witness ==
  /\ Called("cropping_ratio_from_video")
  /\ Len(ind.a) = 3 /\ ind.max_frames = None
  /\ ind.out.num = 1 /\ ind.out.den = 6

\* the call reads no frame: a video without frames, or max_frames = 0
NoFrames ==
  \/ ind.max_frames = Some(0)
  \/ Len(ind.a) = 0
  \/ /\ ind.op \in {"stability_improvement", "distortion_value_from_videos"}
     /\ Len(ind.b) = 0

\* the call has no usable sample to average
NoUsableSample ==
  CASE Called("measure_latency") ->
         \/ ReadOf(Len(ind.a)) = 0
         \/ ~ind.opts.seek_ok /\ Len(ind.a) <= ind.opts.warmup
    [] Called("stability_score_from_video") ->
         SampledSteps(ind.a, ind.max_frames) = {}
    [] Called("stability_improvement") ->
         \/ SampledSteps(ind.a, ind.max_frames) = {}
         \/ SampledSteps(ind.b, ind.max_frames) = {}
    [] Called("cropping_ratio_from_video") -> ReadOf(Len(ind.a)) = 0
    [] Called("distortion_value_from_videos") ->
         ReadOf(Min2(Len(ind.a), Len(ind.b))) = 0

\* the baseline stability score of stability_improvement is exactly zero
ZeroBaseline ==
  /\ Called("stability_improvement")
  /\ SampledSteps(ind.a, ind.max_frames) # {}
  /\ MeanSquaredMotion(ind.a, ind.max_frames).num = 0

\* C20: each indicator function returns NaN without raising when its stream
\* yields no frame (or max_frames = 0), and returns NaN only when it has no
\* usable sample or the baseline stability score is exactly zero.
C20_NaNOnlyWhenDegenerate ==
  ~Called("none") =>
    /\ ~ind.out.raised
    /\ NoFrames => ind.out.nan
    /\ ind.out.nan => (NoUsableSample \/ ZeroBaseline)

C20_Witness ==
  /\ Called("distortion_value_from_videos")
  /\ Len(ind.a) = 2 /\ Len(ind.b) = 2 /\ ind.max_frames = Some(0)
  /\ ind.out.nan

\* the number of frame pairs min(len(a), len(b), max_frames) of a call
PairCount ==
  LET n == Min2(Len(ind.a), Len(ind.b))
  IN IF ind.max_frames = None \/ ind.max_frames[1] >= n THEN n ELSE ind.max_frames[1]

\* v is 1 - SSIM of two frames of the luminances x and y
IsOneMinusSsim(v, x, y) ==
  LET g == (400 * (x * x + y * y) + 2601) \div v.den
  IN /\ ~v.nan /\ ~v.raised
     /\ v.den * g = 400 * (x * x + y * y) + 2601
     /\ v.num * g = 400 * (x - y) * (x - y)

NonDegenerate(video) ==
  \A k \in 1..Len(video) : \E p \in 1..FramePixels : video[k].lum[p] > 3

InputShape == <<frame[1].h, frame[1].w, Len(frame[1].px)>>

\* C23: for a stream of frames of one shape, every value a __call__ of either
\* stabilizer returns (first frame, stabilized frame or held previous output)
\* has the height, width and channel count of the frame passed in.
C23_OutputShapeIsInputShape ==
  (frame # None /\ ret # None) => OutputShape(ret[1]) = InputShape

C23_Witness ==
  /\ Online /\ branch = "hold_fit"
  /\ ret # None /\ ret[1].comp # None /\ ret[1].frame # frame[1]
  /\ InputShape = <<20, 40, 3>>

\* the fields of the stabilizer and what its calls have recorded
stabilizer_vars ==
  <<prev_gray, fast_state, online_state, last_output, frame, ret, prim, branch,
    ntracked, ncalls, motion>>

WriterNames == {"write_stabilized_video", "write_fast_stabilized_video"}

\* C24: a video resource that cannot be opened is surfaced as a RuntimeError
\* and nothing else is changed: a writer raises before it resets or calls the
\* stabilizer when the input cannot be opened, and releases the opened input
\* capture before raising when the output writer cannot be opened; every
\* indicator function raises when one of its streams cannot be opened.  (The
\* step that calls a writer or an indicator function is the one that takes
\* ind from NoIndicator.)
C24_OpenFailureRaises ==
  [][(ind = NoIndicator /\ ind' # NoIndicator) =>
       /\ ind'.op \in WriterNames =>
            /\ ind'.cap = "closed" <=> ind'.vw = "none"
            /\ ind'.pc = "raised" <=> (ind'.cap = "closed" \/ ind'.vw = "closed")
            /\ ind'.pc = "raised" =>
                 /\ UNCHANGED stabilizer_vars
                 /\ ind'.cap # "open"
            /\ ind'.vw = "closed" => ind'.cap = "released"
       /\ ind'.op \in IndicatorNames =>
            /\ (~ind'.a.openable \/ (ind'.op \in TwoPaths /\ ~ind'.b.openable))
                 <=> ind'.out.raised
            /\ UNCHANGED stabilizer_vars]_vars

\* a writer has raised on its output after calls of the stabilizer, with the
\* input capture released and the stabilizer as it was
C24_Witness ==
  /\ ind # NoIndicator /\ ind.op = "write_fast_stabilized_video"
  /\ ind.pc = "raised" /\ ind.vw = "closed" /\ ind.cap = "released"
  /\ ntracked = 1 /\ branch = "tracked" /\ transform_history # <<>>

\* the latest call held its output
Held == branch \in {"hold_flow", "hold_points", "hold_fit"}

\* C25: after a frame on which FastStabilizer held its output the stabilizer
\* is not stuck: a later frame pair that offers enough trackable
\* correspondences is processed normally; with the sparse source a corner set
\* below the usable size is replenished.  Stated for the sparse source: after
\* a hold, there are outcomes of detection and tracking on the next pair for
\* which _compute_sparse_flow delivers at least min_flow_points
\* correspondences.  (Refuted: a detected set of fewer than 10 corners is
\* kept and never detected again.)
C25_NotStuckAfterHold ==
  (Fast /\ flow_method = "lucas_kanade" /\ Held) =>
    \E det \in DetectCounts, good \in TrackedCounts :
      LET sp == ComputeSparseFlow(prev_corners, det, good)
      IN sp.pts # None /\ sp.pts[1] >= min_flow_points

\* C26: with the sparse source, the corner set carried to the next frame
\* holds only points tracked into the current frame with status 1.
\* (Refuted: self.prev_corners = next_corners keeps the failed points.)
C26_OnlyTrackedCornersKept ==
  (Fast /\ prev_corners # None) => prev_corners[1].lost = 0

\* smoothed_(t-1): the smoothed path before a call, identity before the first
\* tracked frame
SmoothedBefore ==
  IF transform_history = <<>> THEN Eye ELSE Latest(transform_history)

\* C27: on every tracked frame FastStabilizer's smoothed path is
\* (1 - a_t) * smoothed_(t-1) + a_t * raw_t, starting from smoothed_0 = I, also
\* on the first tracked frame after construction or reset.  (Refuted: with an
\* empty history the smoothed path is the raw path itself.)
C27_SmoothedFollowsRecurrence ==
  [][(Fast /\ IsCall /\ branch' = "tracked")
     => Latest(transform_history') =
          Blend(AdaptiveAlpha(alpha, Latest(confidence_history')),
                SmoothedBefore, cumulative_transform')]_vars

\* clamp(alpha * avg_confidence, 0.1, 0.95) in twentieths, alpha in halves
\* and the confidence in tenths
ClampedWeight(a, c) ==
  IF a * c < 2 THEN 2 ELSE IF a * c > 19 THEN 19 ELSE a * c

FitFailed(fit) == fit.tag \in {"none", "error"} \/ fit.H.nan

\* the confidence of a frame without any: the lowest value the clip leaves
ZeroConfidence == AverageConfidence(0)

\* C29: when the homography fit fails or returns a non-finite matrix,
\* FastStabilizer substitutes the identity, so the raw path is unchanged by
\* the composition, and treats the frame as zero-confidence: the confidence
\* used for smoothing and recorded in the history is the zero-confidence
\* value, not the mean of the sampled confidences.  (Refuted: the mean is
\* used whatever the fit gave, and a non-finite matrix is composed.)
C29_FailedFitIsZeroConfidence ==
  [][(Fast /\ IsCall /\ prim'.fit # None /\ FitFailed(prim'.fit[1]))
     => /\ cumulative_transform' = cumulative_transform
        /\ branch' = "tracked" =>
             /\ Latest(confidence_history') = ZeroConfidence
             /\ Latest(transform_history') =
                  AdaptiveSmoothing(transform_history, alpha,
                                    cumulative_transform', ZeroConfidence)]_vars

\* the points of the recorded estimation with k * confidence > threshold
PointsOver(k) ==
  {i \in 1..ind.npts : k * ind.weights[1][i] > ind.threshold}

\* C30: for a correspondence set of at least 4 points with confidences of
\* matching length and threshold t, the points passed to the homography fit
\* are exactly those of confidence > t when there are at least 4 of them,
\* otherwise exactly those of confidence > t/2 when there are at least 4 of
\* them, otherwise the full set.
C30_FitPointChoice ==
  (/\ ind # NoIndicator
   /\ ind.npts >= 4
   /\ ind.weights # None /\ Len(ind.weights[1]) = ind.npts) =>
    LET A == PointsOver(1)
        B == PointsOver(2)
    IN /\ ind.selected # None
       /\ ind.selected[1] =
            IF Cardinality(A) >= 4 THEN A
            ELSE IF Cardinality(B) >= 4 THEN B
            ELSE 1..ind.npts

\* four of five points are above half the threshold and only three above it
C30_Witness ==
  /\ ind # NoIndicator
  /\ ind.npts = 5 /\ ind.threshold = 6
  /\ ind.weights = Some(<<7, 7, 7, 4, 3>>)
  /\ ind.selected = Some({1, 2, 3, 4})

\* the homography the latest call got from _estimate_homography_from_flow
FittedHomography(p) == EstimateHomographyFromFlow(p.points[1], p.fit[1])[1]

\* C31: after k tracked frames with fitted homographies H1..Hk since
\* construction or reset, cumulative_transform is Hk @ ... @ H2 @ H1, and a
\* frame on which the output was held contributes no factor.  Stated step by
\* step: a tracked call composes its homography on the left, a reset gives
\* the identity, and no other step changes cumulative_transform.  (Refuted:
\* the call that raises in np.linalg.inv has already composed its factor.)
C31_RawPathIsProductOfTracked ==
  [][Fast =>
       IF IsCall /\ branch' = "tracked"
       THEN cumulative_transform' =
              MatMul(FittedHomography(prim'), cumulative_transform)
       ELSE IF IsCall THEN cumulative_transform' = cumulative_transform
       ELSE cumulative_transform' = Eye]_vars

\* the list h after one more entry x with the oldest evicted at capacity 30
Pushed(h, x) == (IF Len(h) >= 30 THEN Tail(h) ELSE h) \o <<x>>

\* C32: a tracked frame appends exactly one pair (smoothed transform,
\* avg_confidence) to the history of FastStabilizer, the oldest pair being
\* evicted when the length would exceed 30, and no other call changes the
\* history; so the history holds the pairs of the last min(n, 30) tracked
\* frames in stream order, both lists have one length, and every stored
\* confidence is in [0.1, 1.0].
C32_HistoryOfLastTracked ==
  [][Fast =>
       /\ Len(transform_history) = Len(confidence_history)
       /\ Len(transform_history) = Min2(ntracked, 30)
       /\ \A i \in 1..Len(confidence_history) :
            1 <= confidence_history[i] /\ confidence_history[i] <= 10
       /\ IF IsCall /\ branch' = "tracked"
          THEN LET c == Clip(prim'.mean[1], 1, 10)
               IN /\ confidence_history' = Pushed(confidence_history, c)
                  /\ transform_history' =
                       Pushed(transform_history,
                              AdaptiveSmoothing(transform_history, alpha,
                                                cumulative_transform', c))
          ELSE IF IsCall
          THEN UNCHANGED <<transform_history, confidence_history>>
          ELSE transform_history' = <<>> /\ confidence_history' = <<>>]_vars

\* the history is full and its oldest pair has been evicted
C32_Witness ==
  /\ Fast /\ branch = "tracked" /\ ntracked = 31
  /\ Len(transform_history) = 30 /\ Len(confidence_history) = 30
  /\ prim.mean = Some(10)
  /\ \A i \in 1..30 : confidence_history[i] = 10

\* the sum of the last k entries of the list h (k <= Len(h))
RECURSIVE SumOfLast(_, _)
SumOfLast(h, k) ==
  IF k = 0 THEN 0 ELSE h[Len(h) - k + 1] + SumOfLast(h, k - 1)

\* the sum over the entries of (T - I)^2 for the integer matrix m over den
SquaredDeviation(m, den) ==
  LET e(i, j) == m[i][j] - (IF i = j THEN den ELSE 0)
      sq(p) == e(p[1], p[2]) * e(p[1], p[2])
  IN sq(<<1, 1>>) + sq(<<1, 2>>) + sq(<<1, 3>>) + sq(<<2, 1>>) + sq(<<2, 2>>)
       + sq(<<2, 3>>) + sq(<<3, 1>>) + sq(<<3, 2>>) + sq(<<3, 3>>)

\* C33: with n >= 1 history entries, get_stabilization_info() reports as
\* avg_confidence the mean of the last min(5, n) confidences and as transform
\* magnitude the Frobenius norm of (latest smoothed transform - identity);
\* older confidences do not affect the report.  (The norm is given by its
\* square; confidences are in tenths.)
C33_InfoOfRecentHistory ==
  (Fast /\ Len(confidence_history) >= 1) =>
    LET n == Len(confidence_history)
        k == Min2(5, n)
        T == Latest(transform_history)
        recent == SubSeq(confidence_history, n - k + 1, n)
    IN /\ Info.avg_confidence.num * (10 * k)
            = Info.avg_confidence.den * SumOfLast(confidence_history, k)
       /\ Info.transform_norm.nan = T.nan
       /\ ~T.nan =>
            /\ Info.transform_norm.den = T.den * T.den
            /\ Info.transform_norm.num = SquaredDeviation(T.m, T.den)
       /\ GetStabilizationInfo(recent, transform_history).avg_confidence
            = Info.avg_confidence

\* six entries, the oldest of confidence 0.1, and a reported mean of 1.0
C33_Witness ==
  /\ Fast /\ Len(confidence_history) = 6
  /\ confidence_history[1] = 1
  /\ Info.avg_confidence.num = Info.avg_confidence.den

\* the rational vector S (v over den) is (1 - a) * P + a * A, a in halves
IsEmaStep(S, a, P, A) ==
  \A i \in 1..3 :
    2 * S.v[i] * P.den = S.den * ((2 - a) * P.v[i] + a * A[i] * P.den)

\* the rigid transform R is the rotation by the angle component and the
\* translation by the (x, y) components of S - A
IsCompensation(R, S, A) ==
  /\ R.tx * S.den = R.den * (S.v[1] - A[1] * S.den)
  /\ R.ty * S.den = R.den * (S.v[2] - A[2] * S.den)
  /\ R.angle * S.den = R.den * (S.v[3] - A[3] * S.den)

RECURSIVE TimedMs(_, _)
TimedMs(calls, k) ==
  IF k = 0 THEN 0
  ELSE (IF calls[k].timed THEN calls[k].ms ELSE 0) + TimedMs(calls, k - 1)

C36_WriterStartsFromFresh ==
  [][/\ (ind = NoIndicator /\ ind'.op \in WriterNames /\ ind'.pc = "loop") =>
          /\ Fresh'
          /\ ntracked' = 0 /\ motion' = NoMotion
          /\ UNCHANGED config
          /\ ind'.n = 0 /\ ind'.written = <<>>
     /\ (InWriterLoop /\ ind.n = 0 /\ ind' # ind) =>
          \/ ind'.pc = "done" /\ ind'.written = <<>>
          \/ /\ branch' = "first"
             /\ ind'.written = <<[input |-> 1, out |-> Unwarped(frame'[1])]>>]_vars

\* a stabilizer that has tracked a frame is given to a writer, which writes
\* the first input frame as it is
C36_Witness ==
  /\ ind.op \in WriterNames /\ ind.pc = "loop"
  /\ ncalls = 3 /\ ind.n = 1 /\ Len(ind.written) = 1
  /\ branch = "first" /\ ntracked = 0
  /\ ind.written[1].out = Unwarped(frame[1])

\* min(limit_frames, N) for the writer in ind
FramesToWrite ==
  IF ind.limit = None THEN ind.nframes ELSE Min2(ind.limit[1], ind.nframes)

\* C37: in its loop a writer calls the stabilizer exactly once per frame
\* read, in stream order, and writes exactly one output frame per input frame
\* (also when the stabilizer holds), so that the output has
\* min(limit_frames, N) frames with output frame i made from input frame i;
\* the capture and the writer are both released when the loop ends.
C37_OneOutputPerInput ==
  [][(InWriterLoop /\ ind' # ind) =>
       IF ind.n < FramesToWrite
       THEN /\ ncalls' = ncalls + 1
            /\ ret' # None
            /\ ind'.pc = "loop"
            /\ ind'.n = ind.n + 1
            /\ ind'.written = Append(ind.written, [input |-> ind.n + 1,
                                                   out |-> ret'[1]])
       ELSE /\ UNCHANGED <<ncalls, stabilizer_vars>>
            /\ ind'.pc = "done"
            /\ ind'.cap = "released" /\ ind'.vw = "released"
            /\ ind'.n = FramesToWrite
            /\ Len(ind'.written) = FramesToWrite
            /\ \A i \in 1..FramesToWrite : ind'.written[i].input = i]_vars

\* the exits of either __call__ that return the previous output
HoldBranches == {"hold_features", "hold_flow", "hold_points", "hold_fit"}

\* C38: in every reachable state of either stabilizer _last_output is None
\* exactly when prev_gray is None; a call that stores an output returns that
\* output, so on every hold the value returned is the stored output of an
\* earlier call since the last reset, and the current input frame is never
\* returned in its place.
C38_OutputSetWithReference ==
  [][/\ (last_output = None) <=> (prev_gray = None)
     /\ (last_output' = None) <=> (prev_gray' = None)
     /\ (IsCall /\ last_output' # last_output) => ret' = last_output'
     /\ ~IsCall => (last_output' = None /\ branch' = "reset")
     /\ (IsCall /\ branch' \in HoldBranches) =>
          /\ last_output # None
          /\ ret' = last_output
          /\ UNCHANGED last_output]_vars

\* a hold on a frame that differs from the warped output it returns
C38_Witness ==
  /\ branch \in HoldBranches
  /\ WarpedOutput(ret) /\ ret = last_output
  /\ ret # Some(Unwarped(frame[1]))
  /\ prev_gray = Some(Gray(frame[1]))

====
